---------------------------- MODULE Spec2Model ----------------------------
(***************************************************************************)
(* Model of scraper.py: a Selenium scraper that resolves category labels   *)
(* to URLs on a home page, collects article candidates from each category  *)
(* page through a three-tier fallback, fetches one summary per article and *)
(* writes the aggregated rows to a CSV file.                               *)
(*                                                                         *)
(* Text is a sequence of one-character strings.  Python's None and "" are  *)
(* both falsy and the program only ever tests truthiness of hrefs, titles  *)
(* and summaries, so both are the empty sequence here.                     *)
(***************************************************************************)
EXTENDS Integers, Sequences, FiniteSets, TLC

VARIABLES
    call,       \* arguments of the function under test (function specifications)
    ret,        \* <<its return value and effects>>, <<>> before the call
    pc,         \* main: position in the run
    items,      \* main: the category inputs (load_category_inputs)
    limit,      \* main: args.limit
    idx,        \* main: index of the category being processed
    session,    \* main: the browser session: "none", "open", "closed"
    quits,      \* main: number of driver.quit() calls
    usedAfterRelease, \* main: a browser operation ran on a released session
    url,        \* main: the resolved url of the current category
    cands,      \* extract: the candidate list of the current category page
    ci,         \* extract: position in the candidate list
    st,         \* extract: rows, seen set and fetch log of the emit loop
    navs,       \* the urls driver.get was called with, for the current category
    processed,  \* main: indices of the categories whose loop body started
    outcomes,   \* main: per processed category: "notfound", "navfail", "ok"
    failure,    \* main: the exception that escaped, "none" if none
    aggregated, \* main: the accumulated output rows
    writes,     \* main: number of write_csv calls
    csv         \* main: the rows handed to write_csv

vars == <<call, ret, pc, items, limit, idx, session, quits, usedAfterRelease,
          url, cands, ci, st, navs, processed, outcomes, failure, aggregated, writes, csv>>

mainVars == <<pc, items, limit, idx, session, quits, usedAfterRelease,
              url, cands, ci, st, navs, processed, outcomes, failure, aggregated, writes, csv>>

---------------------------------------------------------------------------
(* Bounds of the model *)

MaxAnchors == 2

MaxNodes == 2

MaxCands == 3

MaxItems == 2

MaxLimit == 2

(* Program constants *)

DEFAULT_LIMIT == 5

MinLinkText == 20

SummaryMax == 1000

---------------------------------------------------------------------------
(* Text helpers: the str methods the program uses *)

None == <<>>

Rep(c, n) == [i \in 1..n |-> c]

LowerChar(c) ==
    CASE c = "A" -> "a" [] c = "B" -> "b" [] c = "D" -> "d" [] c = "F" -> "f"
      [] c = "H" -> "h" [] c = "T" -> "t" [] c = "P" -> "p" [] c = "X" -> "x"
      [] OTHER -> c

lower(s) == [i \in 1..Len(s) |-> LowerChar(s[i])]

IsSpace(c) == c \in {" ", "\n", "\t"}

RECURSIVE lstrip(_)
lstrip(s) ==
    IF s # <<>> /\ IsSpace(Head(s)) THEN lstrip(Tail(s)) ELSE s

RECURSIVE rstrip(_)
rstrip(s) ==
    IF s # <<>> /\ IsSpace(s[Len(s)]) THEN rstrip(SubSeq(s, 1, Len(s) - 1)) ELSE s

strip(s) == rstrip(lstrip(s))

startswith(s, p) == Len(s) >= Len(p) /\ SubSeq(s, 1, Len(p)) = p

(* Python's `needle in text` *)
contains(needle, text) ==
    \E i \in 0..(Len(text) - Len(needle)) :
        SubSeq(text, i + 1, i + Len(needle)) = needle

Http == <<"h", "t", "t", "p">>

startswith_http_cs(s) == startswith(s, Http)

(* item.lower().startswith("http") *)
startswith_http(s) == startswith(lower(s), Http)

---------------------------------------------------------------------------
(* Sample texts and urls *)

U1 == <<"h", "t", "t", "p", ":", "a">>

U2 == <<"h", "t", "t", "p", ":", "b">>

Hrefs == {None, U1, U2}

BASE_URL == <<"h", "t", "t", "p", ":", "/">>

(* Outcome of driver.get followed by the readiness wait: "ok", "timeout"   *)
(* (TimeoutException of the wait, swallowed) or "fail" (WebDriverException *)
(* of driver.get).                                                         *)
NavOutcomes == {"ok", "timeout", "fail"}

---------------------------------------------------------------------------
(* find_category_url *)

(* An anchor of the home page: stale means reading it raises. *)
AnchorTexts ==
    { <<>>, <<" ">>, <<" ", "D", "f", " ">>, <<"x", "d", "F">>, <<"f">> }

Anchors ==
    { [stale |-> TRUE, text |-> <<>>, href |-> None] } \cup
    [stale : {FALSE}, text : AnchorTexts, href : Hrefs]

SeqsUpTo(S, n) == UNION { [1..k -> S] : k \in 0..n }

Homes == [nav : NavOutcomes, anchors : SeqsUpTo(Anchors, MaxAnchors)]

CategoryNames ==
    { <<"d", "f">>, <<" ", "D", "F", " ">>, <<"f">>, <<"s", "p">>,
      <<"H", "t", "T", "p", ":", "a">> }

RECURSIVE scan_anchors_cs(_, _, _)
scan_anchors_cs(anchors, needle, i) ==
    IF i > Len(anchors) THEN None
    ELSE LET a == anchors[i]
             text == strip(a.text)
         IN  IF a.stale \/ text = <<>> THEN scan_anchors_cs(anchors, needle, i + 1)
             ELSE IF contains(needle, text) /\ a.href # None THEN a.href
             ELSE scan_anchors_cs(anchors, needle, i + 1)

(* The loop over the anchors of the home page, from anchor i on. *)
RECURSIVE scan_anchors(_, _, _)
scan_anchors(anchors, needle, i) ==
    IF i > Len(anchors) THEN None
    ELSE LET a == anchors[i]
             text == strip(a.text)
         IN  IF a.stale \/ text = <<>> THEN scan_anchors(anchors, needle, i + 1)
             ELSE IF contains(needle, lower(text)) /\ a.href # None THEN a.href
             ELSE scan_anchors(anchors, needle, i + 1)

(* Result: the returned url (None when not found), the urls navigated to,  *)
(* and whether a WebDriverException escaped.                               *)
find_category_url(category_name, home) ==
    IF startswith_http(category_name)
    THEN [url |-> category_name, navs |-> <<>>, raised |-> FALSE]
    ELSE IF home.nav = "fail"
    THEN [url |-> None, navs |-> <<BASE_URL>>, raised |-> TRUE]
    ELSE [url |-> scan_anchors(home.anchors, lower(strip(category_name)), 1),
          navs |-> <<BASE_URL>>, raised |-> FALSE]

---------------------------------------------------------------------------
(* Specification of find_category_url as a function of its inputs *)

(* rows = [], seen = set() before the loop over the candidates *)
EmitStart == [rows |-> <<>>, seen |-> {}, fetched |-> <<>>, done |-> FALSE]

(* The variables of main, at rest while a single function is examined *)
MainOff ==
    /\ pc = "off" /\ items = <<>> /\ limit = 0 /\ idx = 0
    /\ session = "none" /\ quits = 0 /\ usedAfterRelease = FALSE
    /\ url = None /\ cands = <<>> /\ ci = 0
    /\ st = EmitStart
    /\ navs = <<>> /\ processed = <<>> /\ outcomes = <<>> /\ failure = "none"
    /\ aggregated = <<>> /\ writes = 0 /\ csv = <<>>

InitResolve ==
    /\ call \in [category_name : CategoryNames, home : Homes]
    /\ ret = <<>>
    /\ MainOff

CallFindCategoryUrl ==
    /\ ret = <<>>
    /\ ret' = <<find_category_url(call.category_name, call.home)>>
    /\ UNCHANGED <<call, mainVars>>

NextResolve == CallFindCategoryUrl

SpecResolve == InitResolve /\ [][NextResolve]_vars

(* The anchors the scan can return: readable, non-empty text containing the *)
(* label, compared in lower case and stripped.                              *)
TextMatches(i) ==
    LET a == call.home.anchors[i]
    IN  /\ ~a.stale
        /\ strip(a.text) # <<>>
        /\ contains(lower(strip(call.category_name)), lower(strip(a.text)))

MatchingAnchors == { i \in 1..Len(call.home.anchors) : TextMatches(i) }

UsableAnchors == { i \in MatchingAnchors : call.home.anchors[i].href # None }

Min(S) == CHOOSE m \in S : \A n \in S : m <= n

ResolveReturned ==
    /\ ret # <<>>
    /\ ~startswith_http(call.category_name)
    /\ ~ret[1].raised

\* C4 (as stated): the result is the href of the first anchor whose text
\* contains the label, and None exactly when no anchor matches.
C4_FirstMatch_Original ==
    ResolveReturned =>
        IF MatchingAnchors = {} THEN ret[1].url = None
        ELSE /\ ret[1].url # None
             /\ ret[1].url = call.home.anchors[Min(MatchingAnchors)].href

\* C4 (amended): the result is the href of the first anchor, in document
\* order, whose readable non-empty text contains the label (both stripped and
\* lower-cased) and whose href is non-empty; None exactly when there is no
\* such anchor.
C4_FirstUsableMatch ==
    ResolveReturned =>
        IF UsableAnchors = {} THEN ret[1].url = None
        ELSE ret[1].url = call.home.anchors[Min(UsableAnchors)].href

C4_Witness ==
    /\ ResolveReturned
    /\ Cardinality(UsableAnchors) = 2
    /\ call.home.anchors[1].href # call.home.anchors[2].href
    /\ call.category_name # lower(strip(call.category_name))
    /\ ret[1].url = call.home.anchors[1].href

---------------------------------------------------------------------------
(* extract_top_articles_on_category: collecting the candidates *)

T21 == Rep("x", MinLinkText + 1)

T20s == <<" ">> \o Rep("x", MinLinkText) \o <<" ">>

H1 == <<"h", "1">>

(* The elements of a category page, in document order.  An article is an   *)
(* <article> container, ok when its a[href] lookup and reads succeed; an   *)
(* hlink is a link inside <main> that wraps a heading; a link is any other *)
(* <a>.  A heading link or link that is not ok raises when read.  The      *)
(* selector a[href] only finds links that carry the attribute, for which   *)
(* the driver reports a resolved, non-empty url; a heading link or a plain *)
(* link may lack the attribute (href None).                                *)
Nodes ==
    { [kind |-> k, ok |-> FALSE, href |-> None, text |-> <<>>, heading |-> <<>>] :
        k \in {"article", "hlink", "link"} } \cup
    [kind : {"article"}, ok : {TRUE}, href : Hrefs \ {None}, text : {T21},
     heading : {<<>>}] \cup
    [kind : {"article"}, ok : {TRUE}, href : Hrefs \ {None}, text : {<<>>},
     heading : {<<>>, H1}] \cup
    [kind : {"hlink"}, ok : {TRUE}, href : Hrefs, text : {<<>>, T21}, heading : {<<>>}] \cup
    [kind : {"link"}, ok : {TRUE}, href : Hrefs, text : {<<>>, T20s, T21}, heading : {<<>>}]

Pages == [nav : NavOutcomes, nodes : SeqsUpTo(Nodes, MaxNodes)]

(* `x or y` on texts *)
Or(x, y) == IF x # <<>> THEN x ELSE y

Cand(title, href, tier) == [title |-> title, href |-> href, tier |-> tier]

(* The <article> loop: one candidate per container whose link is found. *)
RECURSIVE tier1(_, _)
tier1(nodes, i) ==
    IF i > Len(nodes) THEN <<>>
    ELSE LET n == nodes[i]
             title == Or(strip(n.text), strip(n.heading))
         IN  IF n.kind = "article" /\ n.ok
             THEN <<Cand(Or(title, n.href), n.href, 1)>> \o tier1(nodes, i + 1)
             ELSE tier1(nodes, i + 1)

(* The heading-link loop. *)
RECURSIVE tier2(_, _)
tier2(nodes, i) ==
    IF i > Len(nodes) THEN <<>>
    ELSE LET n == nodes[i]
         IN  IF n.kind = "hlink" /\ n.ok
             THEN <<Cand(Or(strip(n.text), n.href), n.href, 2)>> \o tier2(nodes, i + 1)
             ELSE tier2(nodes, i + 1)

RECURSIVE tier3_nohref(_, _)
tier3_nohref(nodes, i) ==
    IF i > Len(nodes) THEN <<>>
    ELSE LET n == nodes[i]
             text == strip(n.text)
         IN  IF n.ok /\ text # <<>> /\ Len(text) > MinLinkText
             THEN <<Cand(text, n.href, 3)>> \o tier3_nohref(nodes, i + 1)
             ELSE tier3_nohref(nodes, i + 1)

(* The loop over every <a> of the page (an article's link is an <a> too). *)
RECURSIVE tier3(_, _)
tier3(nodes, i) ==
    IF i > Len(nodes) THEN <<>>
    ELSE LET n == nodes[i]
             text == strip(n.text)
         IN  IF n.ok /\ text # <<>> /\ n.href # None /\ Len(text) > MinLinkText
             THEN <<Cand(text, n.href, 3)>> \o tier3(nodes, i + 1)
             ELSE tier3(nodes, i + 1)

collect_candidates_merged(page) ==
    IF page.nav = "fail"
    THEN [cands |-> <<>>, ran |-> <<>>]
    ELSE [cands |-> tier1(page.nodes, 1) \o tier2(page.nodes, 1) \o tier3(page.nodes, 1),
          ran |-> <<1, 2, 3>>]

(* Navigation and the three tiers.  ran lists the tiers whose loop ran. *)
collect_candidates(page) ==
    IF page.nav = "fail"
    THEN [cands |-> <<>>, ran |-> <<>>]
    ELSE LET c1 == tier1(page.nodes, 1)
             c2 == IF c1 = <<>> THEN tier2(page.nodes, 1) ELSE c1
             c3 == IF c2 = <<>> THEN tier3(page.nodes, 1) ELSE c2
         IN  [cands |-> c3,
              ran |-> <<1>> \o (IF c1 = <<>> THEN <<2>> ELSE <<>>)
                            \o (IF c2 = <<>> THEN <<3>> ELSE <<>>)]

---------------------------------------------------------------------------
(* extract_top_articles_on_category: dedup, summary and limit *)

P1 == <<"p">>

Summaries == {None, P1}

Limits == {0 - 1} \cup 0..MaxLimit

Row(title, summary, href) == [title |-> title, summary |-> summary, url |-> href]

emit_step_nodedup(s, c, summary, lim) ==
    IF s.done \/ c.href = None THEN s
    ELSE LET rows == Append(s.rows, Row(c.title, Or(summary, <<>>), c.href))
         IN  [rows |-> rows, seen |-> s.seen \cup {c.href},
              fetched |-> Append(s.fetched, c.href), done |-> Len(rows) >= lim]

(* One iteration of the loop over the candidates; summary is what          *)
(* fetch_first_paragraph returns for c.href; done is the break.            *)
emit_step(s, c, summary, lim) ==
    IF s.done \/ c.href = None \/ c.href \in s.seen THEN s
    ELSE LET rows == Append(s.rows, Row(c.title, Or(summary, <<>>), c.href))
         IN  [rows |-> rows, seen |-> s.seen \cup {c.href},
              fetched |-> Append(s.fetched, c.href), done |-> Len(rows) >= lim]

RECURSIVE emit(_, _, _, _, _)
emit(s, candidates, i, sums, lim) ==
    IF i > Len(candidates) THEN s
    ELSE emit(emit_step(s, candidates[i], sums[candidates[i].href], lim),
              candidates, i + 1, sums, lim)

---------------------------------------------------------------------------
(* Specification of the candidate collection as a function of the page *)

InitExtract ==
    /\ call \in [page : Pages]
    /\ ret = <<>>
    /\ MainOff

CallCollectCandidates ==
    /\ ret = <<>>
    /\ ret' = <<collect_candidates(call.page)>>
    /\ UNCHANGED <<call, mainVars>>

NextExtract == CallCollectCandidates

SpecExtract == InitExtract /\ [][NextExtract]_vars

Collected == ret # <<>> /\ call.page.nav # "fail"

NodesOf(kind) ==
    { i \in 1..Len(call.page.nodes) : call.page.nodes[i].kind = kind }

Readable(kind) == { i \in NodesOf(kind) : call.page.nodes[i].ok }

Last(s) == s[Len(s)]

\* C5: the tiers run in the order 1, 2, 3; tier 2 runs only when no article
\* container gave a candidate and tier 3 only when in addition no heading
\* link gave one; all candidates come from the last tier that ran; a page
\* without article containers and with one readable heading link yields
\* that link as the only candidate and tier 3 does not run.
C5_OneTier ==
    Collected =>
        /\ ret[1].ran = IF Readable("article") # {} THEN <<1>>
                        ELSE IF Readable("hlink") # {} THEN <<1, 2>>
                        ELSE <<1, 2, 3>>
        /\ \A k \in 1..Len(ret[1].cands) : ret[1].cands[k].tier = Last(ret[1].ran)
        /\ Len(ret[1].ran) < 3 => ret[1].cands # <<>>
        /\ (NodesOf("article") = {} /\ Cardinality(Readable("hlink")) = 1) =>
              /\ Len(ret[1].cands) = 1
              /\ ret[1].cands[1].tier = 2
              /\ ret[1].cands[1].href =
                    call.page.nodes[Min(Readable("hlink"))].href
              /\ \A k \in 1..Len(ret[1].ran) : ret[1].ran[k] # 3

C5_Witness ==
    /\ Collected
    /\ NodesOf("article") = {}
    /\ Cardinality(Readable("hlink")) = 1
    /\ \E i \in Readable("link") :
          /\ call.page.nodes[i].text = T21
          /\ call.page.nodes[i].href # None
    /\ Len(ret[1].cands) = 1
    /\ ret[1].cands[1].href # None

\* C10 (as stated): no candidate of any tier has a missing or empty url.
C10_NoEmptyUrl_Original ==
    Collected => \A k \in 1..Len(ret[1].cands) : ret[1].cands[k].href # None

\* C10 (amended): only tier 3 tests the url before adding a candidate: every
\* tier 3 candidate has a non-empty url and a text longer than 20 characters.
\* Tiers 1 and 2 add one candidate per readable container or heading link
\* whether or not its href is empty, and such a tier counts as having
\* yielded candidates, so that no later tier runs.
C10_Tier3OnlyUsable ==
    Collected =>
        /\ \A k \in 1..Len(ret[1].cands) :
              ret[1].cands[k].tier = 3 =>
                  /\ ret[1].cands[k].href # None
                  /\ Len(ret[1].cands[k].title) > MinLinkText
        /\ Last(ret[1].ran) = 1 => Len(ret[1].cands) = Cardinality(Readable("article"))
        /\ Last(ret[1].ran) = 2 => Len(ret[1].cands) = Cardinality(Readable("hlink"))

C10_Witness ==
    /\ Collected
    /\ Last(ret[1].ran) = 3
    /\ Len(ret[1].cands) = 1
    /\ \E i \in Readable("link") :
          call.page.nodes[i].text = T21 /\ call.page.nodes[i].href = None

(* A heading link without href ends the chain although a usable link exists. *)
C10_EmptyUrlStopsChain ==
    /\ Collected
    /\ ret[1].ran = <<1, 2>>
    /\ \A k \in 1..Len(ret[1].cands) : ret[1].cands[k].href = None
    /\ \E i \in Readable("link") :
          call.page.nodes[i].text = T21 /\ call.page.nodes[i].href # None

---------------------------------------------------------------------------
(* Specification of the emit loop as a function of candidates and limit *)

CandTitles == {<<"t">>, <<"u">>}

Candidates ==
    { Cand(t, h, 2) : t \in CandTitles, h \in Hrefs } \cup
    { Cand(h, h, 2) : h \in Hrefs }

InitEmit ==
    /\ call \in [candidates : SeqsUpTo(Candidates, MaxCands), limit : Limits,
                 sums : [Hrefs -> Summaries]]
    /\ ret = <<>>
    /\ MainOff

CallEmit ==
    /\ ret = <<>>
    /\ ret' = <<emit(EmitStart, call.candidates, 1, call.sums, call.limit)>>
    /\ UNCHANGED <<call, mainVars>>

NextEmit == CallEmit

SpecEmit == InitEmit /\ [][NextEmit]_vars

Max(a, b) == IF a >= b THEN a ELSE b

\* C6: for every integer limit the number of rows returned never exceeds
\* limit (no row at all for a limit of zero or less), and one summary is
\* fetched per row emitted.
C6_AtMostLimit ==
    ret # <<>> =>
        /\ Len(ret[1].rows) <= Max(call.limit, 0)
        /\ Len(ret[1].fetched) = Len(ret[1].rows)

(* Positions of the candidates that are first occurrences of a non-empty url *)
FirstOccurrences ==
    { i \in 1..Len(call.candidates) :
        /\ call.candidates[i].href # None
        /\ \A j \in 1..(i - 1) : call.candidates[j].href # call.candidates[i].href }

Kth(S, k) == CHOOSE i \in S : Cardinality({ j \in S : j < i }) = k - 1

\* C7: the rows have pairwise distinct non-empty urls; the k-th row is the
\* k-th first occurrence of a non-empty url in the candidate sequence, with
\* that occurrence's title; duplicates and candidates without url take no
\* place in the rows, and rows are missing only once the limit is reached.
C7_DedupInOrder ==
    ret # <<>> =>
        LET rows == ret[1].rows
        IN  /\ \A a, b \in 1..Len(rows) : a # b => rows[a].url # rows[b].url
            /\ \A a \in 1..Len(rows) : rows[a].url # None
            /\ Len(rows) <= Cardinality(FirstOccurrences)
            /\ \A k \in 1..Len(rows) :
                  /\ k <= Cardinality(FirstOccurrences)
                  /\ rows[k].url = call.candidates[Kth(FirstOccurrences, k)].href
                  /\ rows[k].title = call.candidates[Kth(FirstOccurrences, k)].title
            /\ Len(rows) < Cardinality(FirstOccurrences) => Len(rows) >= call.limit
            /\ ret[1].seen = { rows[a].url : a \in 1..Len(rows) }

C7_Witness ==
    /\ ret # <<>>
    /\ Len(call.candidates) = 3
    /\ call.candidates[1].href = None
    /\ call.candidates[2].href = call.candidates[3].href
    /\ call.candidates[2].title # call.candidates[3].title
    /\ call.limit = 2
    /\ Len(ret[1].rows) = 1
    /\ ret[1].rows[1].title = call.candidates[2].title

---------------------------------------------------------------------------
(* fetch_first_paragraph *)

Selectors == <<"article p", ".entry-content p", ".post-content p", "main p", "p">>

LongPara == <<" ">> \o Rep("x", SummaryMax + 1) \o <<"\n", "b", " ">>

ParaTexts == { <<>>, <<" ", "\n">>, <<" ", "a", " ", "\n", "b">>, LongPara }

(* What find_element gives for one selector: "none" raises                 *)
(* NoSuchElementException, "raise" is an element whose read raises, "text" *)
(* is an element with this text.                                           *)
SelOutcomes ==
    { [kind |-> "none", text |-> <<>>], [kind |-> "raise", text |-> <<>>] } \cup
    [kind : {"text"}, text : ParaTexts]

ArticlePages == [nav : NavOutcomes, sels : [1..Len(Selectors) -> SelOutcomes]]

(* text.split("\n")[0] *)
first_line(text) ==
    LET breaks == { i \in 1..Len(text) : text[i] = "\n" }
    IN  IF breaks = {} THEN text ELSE SubSeq(text, 1, Min(breaks) - 1)

(* text[:n] *)
truncate(text, n) == SubSeq(text, 1, IF Len(text) < n THEN Len(text) ELSE n)

RECURSIVE try_selectors_first_match(_, _)
try_selectors_first_match(sels, i) ==
    IF i > Len(sels) THEN None
    ELSE IF sels[i].kind = "none" THEN try_selectors_first_match(sels, i + 1)
    ELSE truncate(first_line(strip(sels[i].text)), SummaryMax)

(* The loop over the selectors, from selector i on. *)
RECURSIVE try_selectors(_, _)
try_selectors(sels, i) ==
    IF i > Len(sels) THEN None
    ELSE LET text == strip(sels[i].text)
         IN  IF sels[i].kind = "text" /\ text # <<>>
             THEN truncate(first_line(text), SummaryMax)
             ELSE try_selectors(sels, i + 1)

fetch_first_paragraph(page) ==
    IF page.nav = "fail" THEN None ELSE try_selectors(page.sels, 1)

---------------------------------------------------------------------------
(* Specification of fetch_first_paragraph as a function of the article page *)

InitFetch ==
    /\ call \in [page : ArticlePages]
    /\ ret = <<>>
    /\ MainOff

CallFetchFirstParagraph ==
    /\ ret = <<>>
    /\ ret' = <<fetch_first_paragraph(call.page)>>
    /\ UNCHANGED <<call, mainVars>>

NextFetch == CallFetchFirstParagraph

SpecFetch == InitFetch /\ [][NextFetch]_vars

(* r is t stripped, cut at the first line break and truncated *)
IsSnippetOf(r, t) ==
    \E a \in 1..Len(t) :
        /\ ~IsSpace(t[a])
        /\ \A j \in 1..(a - 1) : IsSpace(t[j])
        /\ \E b \in a..Len(t) :
              /\ ~IsSpace(t[b])
              /\ \A j \in (b + 1)..Len(t) : IsSpace(t[j])
              /\ Len(r) <= SummaryMax
              /\ Len(r) <= b - a + 1
              /\ \A j \in 1..Len(r) : r[j] = t[a + j - 1] /\ r[j] # "\n"
              /\ \/ Len(r) = SummaryMax
                 \/ Len(r) = b - a + 1
                 \/ t[a + Len(r)] = "\n"

(* Selectors that match an element whose text can be read *)
Matched == { i \in 1..Len(Selectors) : call.page.sels[i].kind = "text" }

WithText ==
    { i \in 1..Len(Selectors) :
        /\ call.page.sels[i].kind = "text"
        /\ \E j \in 1..Len(call.page.sels[i].text) : ~IsSpace(call.page.sels[i].text[j]) }

C8_WitnessLineBreak ==
    /\ ret # <<>>
    /\ Cardinality(WithText) > 1
    /\ ret[1] = <<"a", " ">>

---------------------------------------------------------------------------
(* main *)

(* load_category_inputs returns a non-empty list of stripped, non-empty    *)
(* names or urls.                                                          *)
ItemSamples ==
    { <<"d", "f">>, <<"s", "p">>, <<"H", "t", "T", "p", ":", "a">> }

ItemLists == SeqsUpTo(ItemSamples, MaxItems) \ {<<>>}

Anchor(text, href) == [stale |-> FALSE, text |-> text, href |-> href]

HomeSamples ==
    { [nav |-> "fail", anchors |-> <<>>],
      [nav |-> "timeout", anchors |-> <<Anchor(<<"f">>, U2)>>],
      [nav |-> "ok", anchors |-> <<Anchor(<<" ", "D", "f", " ">>, None),
                                   Anchor(<<"x", "d", "F">>, U1)>>] }

Node(kind, href, text, heading) ==
    [kind |-> kind, ok |-> TRUE, href |-> href, text |-> text, heading |-> heading]

PageSamples ==
    { [nav |-> "fail", nodes |-> <<>>],
      [nav |-> "ok", nodes |-> <<Node("article", U1, T21, <<>>),
                                 Node("article", U2, <<>>, H1)>>],
      [nav |-> "ok", nodes |-> <<Node("article", U1, T21, <<>>),
                                 Node("article", U1, <<>>, <<>>)>>],
      [nav |-> "timeout", nodes |-> <<Node("hlink", None, T21, <<>>),
                                      Node("link", U1, T21, <<>>)>>] }

ArticleWith(nav, generic) ==
    [nav |-> nav,
     sels |-> [i \in 1..Len(Selectors) |->
                 IF i = Len(Selectors) THEN generic
                 ELSE [kind |-> "none", text |-> <<>>]]]

ArticleSamples ==
    { ArticleWith("fail", [kind |-> "none", text |-> <<>>]),
      ArticleWith("ok", [kind |-> "none", text |-> <<>>]),
      ArticleWith("ok", [kind |-> "text", text |-> <<" ", "a", " ", "\n", "b">>]) }

InitMain ==
    /\ call = <<>> /\ ret = <<>>
    /\ pc = "init"
    /\ items \in ItemLists
    /\ limit \in {1, DEFAULT_LIMIT}
    /\ idx = 0
    /\ session = "none" /\ quits = 0 /\ usedAfterRelease = FALSE
    /\ url = None /\ cands = <<>> /\ ci = 0 /\ st = EmitStart
    /\ navs = <<>> /\ processed = <<>> /\ outcomes = <<>> /\ failure = "none"
    /\ aggregated = <<>> /\ writes = 0 /\ csv = <<>>

(* driver = init_driver(...): the webdriver constructor may raise (no      *)
(* session), and driver.set_page_load_timeout(30) may raise once the       *)
(* session exists; both happen before main's try block.                    *)
init_driver ==
    /\ pc = "init"
    /\ \E outcome \in {"ok", "no_session", "timeout_not_set"} :
          /\ session' = IF outcome = "no_session" THEN "none" ELSE "open"
          /\ failure' = IF outcome = "ok" THEN "none" ELSE "init"
          /\ pc' = IF outcome = "ok" THEN "next" ELSE "raised"
    /\ UNCHANGED <<call, ret, items, limit, idx, quits, usedAfterRelease, url, cands,
                   ci, st, navs, processed, outcomes, aggregated, writes, csv>>

(* for item in items: *)
NextItem ==
    /\ pc = "next"
    /\ IF idx < Len(items)
       THEN /\ idx' = idx + 1
            /\ processed' = Append(processed, idx + 1)
            /\ navs' = <<>>
            /\ pc' = "resolve"
       ELSE /\ pc' = "finally"
            /\ UNCHANGED <<idx, processed, navs>>
    /\ UNCHANGED <<call, ret, items, limit, session, quits, usedAfterRelease, url,
                   cands, ci, st, outcomes, failure, aggregated, writes, csv>>

Use == usedAfterRelease' = (usedAfterRelease \/ session # "open")

(* url = item if item.lower().startswith("http") else find_category_url(..) *)
resolve_item(item, home) ==
    IF startswith_http(item)
    THEN [url |-> item, navs |-> <<>>, raised |-> FALSE]
    ELSE find_category_url(item, home)

ResolveCategory ==
    /\ pc = "resolve"
    /\ \E home \in HomeSamples :
          LET r == resolve_item(items[idx], home)
          IN  /\ navs' = navs \o r.navs
              /\ usedAfterRelease' =
                    (usedAfterRelease \/ (r.navs # <<>> /\ session # "open"))
              /\ IF r.raised
                 THEN /\ failure' = "home_nav"
                      /\ pc' = "finally"
                      /\ UNCHANGED <<url, outcomes>>
                 ELSE IF r.url = None
                 THEN /\ outcomes' = Append(outcomes, "notfound")
                      /\ pc' = "next"
                      /\ UNCHANGED <<url, failure>>
                 ELSE /\ url' = r.url
                      /\ pc' = "extract"
                      /\ UNCHANGED <<outcomes, failure>>
    /\ UNCHANGED <<call, ret, items, limit, idx, session, quits, cands, ci, st,
                   processed, aggregated, writes, csv>>

(* extract_top_articles_on_category up to the loop over the candidates *)
StartExtract ==
    /\ pc = "extract"
    /\ \E page \in PageSamples :
          /\ cands' = collect_candidates(page).cands
          /\ outcomes' = Append(outcomes, IF page.nav = "fail" THEN "navfail" ELSE "ok")
    /\ navs' = Append(navs, url)
    /\ Use
    /\ ci' = 1
    /\ st' = EmitStart
    /\ pc' = "emit"
    /\ UNCHANGED <<call, ret, items, limit, idx, session, quits, url, processed,
                   failure, aggregated, writes, csv>>

(* One iteration of the loop over the candidates, with its summary fetch *)
EmitNext ==
    /\ pc = "emit"
    /\ ci <= Len(cands) /\ ~st.done
    /\ \E apage \in ArticleSamples :
          st' = emit_step(st, cands[ci], fetch_first_paragraph(apage), limit)
    /\ IF st'.fetched # st.fetched
       THEN navs' = Append(navs, cands[ci].href) /\ Use
       ELSE UNCHANGED <<navs, usedAfterRelease>>
    /\ ci' = ci + 1
    /\ UNCHANGED <<call, ret, pc, items, limit, idx, session, quits, url, cands,
                   processed, outcomes, failure, aggregated, writes, csv>>

OutRow(i, r) ==
    [from |-> i, category |-> items[i], title |-> r.title,
     summary |-> r.summary, url |-> r.url]

(* return rows, and main's loop appending them under the requested label *)
AppendRows ==
    /\ pc = "emit"
    /\ ci > Len(cands) \/ st.done
    /\ aggregated' = aggregated \o [k \in 1..Len(st.rows) |-> OutRow(idx, st.rows[k])]
    /\ pc' = "next"
    /\ UNCHANGED <<call, ret, items, limit, idx, session, quits, usedAfterRelease, url,
                   cands, ci, st, navs, processed, outcomes, failure, writes, csv>>

(* A driver call outside every try/except of the callee raises             *)
(* WebDriverException: find_elements in find_category_url or in            *)
(* extract_top_articles_on_category, or a wait that fails other than by    *)
(* timing out.  The exception leaves main's loop.                          *)
SessionFailure ==
    /\ \/ pc = "resolve" /\ ~startswith_http(items[idx])
       \/ pc = "extract"
       \/ pc = "emit" /\ ci <= Len(cands) /\ ~st.done
    /\ Use
    /\ failure' = "session"
    /\ pc' = "finally"
    /\ UNCHANGED <<call, ret, items, limit, idx, session, quits, url, cands, ci, st,
                   navs, processed, outcomes, aggregated, writes, csv>>

Quit_no_release ==
    /\ pc = "finally"
    /\ pc' = IF failure = "none" THEN "write" ELSE "raised"
    /\ UNCHANGED <<call, ret, items, limit, idx, session, quits, usedAfterRelease, url,
                   cands, ci, st, navs, processed, outcomes, failure, aggregated,
                   writes, csv>>

(* finally: driver.quit(), any exception of which is swallowed; a pending  *)
(* exception then leaves main.                                             *)
Quit ==
    /\ pc = "finally"
    /\ quits' = quits + 1
    /\ \E quit_raises \in BOOLEAN : session' = "closed"
    /\ pc' = IF failure = "none" THEN "write" ELSE "raised"
    /\ UNCHANGED <<call, ret, items, limit, idx, usedAfterRelease, url, cands, ci, st,
                   navs, processed, outcomes, failure, aggregated, writes, csv>>

write_csv ==
    /\ pc = "write"
    /\ writes' = writes + 1
    /\ csv' = aggregated
    /\ pc' = "done"
    /\ UNCHANGED <<call, ret, items, limit, idx, session, quits, usedAfterRelease, url,
                   cands, ci, st, navs, processed, outcomes, failure, aggregated>>

Next ==
    \/ init_driver
    \/ NextItem
    \/ ResolveCategory
    \/ StartExtract
    \/ EmitNext
    \/ AppendRows
    \/ SessionFailure
    \/ Quit
    \/ write_csv

Init == InitMain

Spec == Init /\ [][Next]_vars

Ended == pc \in {"done", "raised"}

\* C1 (as stated): in every run that reaches the category loop, also one in
\* which the browser session fails unrecoverably inside the loop, the
\* accumulated records are handed to write_csv exactly once, after the
\* session has been released.
C1_WrittenOnce_Original ==
    /\ writes <= 1
    /\ writes = 1 => (session = "closed" /\ csv = aggregated)
    /\ (Ended /\ failure \in {"none", "session"}) => writes = 1

\* C1 (amended): write_csv is called at most once and only after the session
\* has been released; it is called exactly once, with all accumulated
\* records, when the category loop ends without an exception, and not at all
\* when an exception leaves the loop (the session is still released, then
\* the exception leaves main).
C1_WrittenOnceIfLoopCompletes ==
    /\ writes <= 1
    /\ writes = 1 => /\ session = "closed"
                     /\ quits = 1
                     /\ csv = aggregated
                     /\ failure = "none"
    /\ (Ended /\ failure = "none") => (pc = "done" /\ writes = 1)
    /\ (Ended /\ failure # "none") => (pc = "raised" /\ writes = 0)
    /\ (Ended /\ failure \in {"home_nav", "session"}) => session = "closed"

C1_Witness ==
    /\ pc = "done"
    /\ writes = 1
    /\ session = "closed"
    /\ Len(csv) >= 2
    /\ \E k \in 1..Len(outcomes) : outcomes[k] # "ok"

\* C2: a category that fails (label not found, home-page navigation failure,
\* category-page navigation failure, article-page navigation failure) never
\* aborts the run: every category is processed in input order, the run
\* reaches its normal end, a failed category contributes no row and every
\* row carries the requested label of its category.
C2_FailureDoesNotAbort ==
    /\ processed = [i \in 1..Len(processed) |-> i]
    /\ \A k \in 1..Len(aggregated) :
          /\ aggregated[k].from \in 1..Len(outcomes)
          /\ outcomes[aggregated[k].from] = "ok"
          /\ aggregated[k].category = items[aggregated[k].from]
    /\ (Ended /\ failure \in {"none", "home_nav"}) =>
          /\ Len(processed) = Len(items)
          /\ pc = "done"

\* C3: once the session exists it is released exactly once on every exit
\* path, and no browser operation runs on it after its release.
C3_ReleasedExactlyOnce ==
    /\ quits <= 1
    /\ ~usedAfterRelease
    /\ (Ended /\ session # "none") => (quits = 1 /\ session = "closed")

(* The current category input begins with "http" in some letter case *)
CurrentIsUrl ==
    /\ idx >= 1
    /\ Len(items[idx]) >= Len(Http)
    /\ \A k \in 1..Len(Http) : LowerChar(items[idx][k]) = Http[k]

\* C9: for a category input that begins with "http" in any letter case the
\* resolved url is the input itself, unchanged, and the first navigation made
\* for that category is to that url: the home page is not loaded.
C9_UrlUsedVerbatim ==
    CurrentIsUrl =>
        /\ navs # <<>> => navs[1] = items[idx]
        /\ \A k \in 1..Len(navs) : navs[k] # BASE_URL
        /\ pc \in {"extract", "emit"} => url = items[idx]

C9_Witness ==
    /\ CurrentIsUrl
    /\ items[idx] # lower(items[idx])
    /\ pc = "emit"
    /\ Len(navs) >= 2
    /\ navs[1] = items[idx]
    /\ url = items[idx]

=============================================================================
